---- MODULE Spec2Model ----
(***************************************************************************)
(* A model of StatShot (src/app.py): the player resolver, the              *)
(* attribute/stat localization tables, the player summary formatter, the   *)
(* stat flattening loop and the Streamlit session (Analyze / Submit        *)
(* Feedback) with its two Firestore collections.                           *)
(*                                                                         *)
(* Conventions.  A Python str whose characters matter is a sequence of     *)
(* one-character strings; a str that is only compared as a whole is a TLA+ *)
(* string.  A Python value that may be None is an option: <<>> is None and *)
(* <<v>> is the value v.  A dict with optional keys is a function whose    *)
(* DOMAIN is the set of keys present.                                      *)
(***************************************************************************)
EXTENDS Integers, Sequences, FiniteSets, TLC

VARIABLES
    call,           \* the pending call of a pure function: its name and arguments
    done,           \* TRUE once the call has returned
    ret,            \* what the call returned
    uploaded_file,  \* session: TRUE iff the file uploader holds an image
    email,          \* session: the text of the email input, which exists
                    \*   only while an image is uploaded
    language,       \* session: the language the selectbox yields
    users,          \* Firestore collection 'users' (identification events)
    user_feedback,  \* Firestore collection 'user_feedback'
    trace,          \* the external calls of the last script run, in order
    page,           \* what the last script run put on the page, in order
    outcome         \* where the last script run ended

pureVars == <<call, done, ret>>
sessionVars == <<uploaded_file, email, language, users, user_feedback,
                 trace, page, outcome>>
vars == <<call, done, ret, uploaded_file, email, language, users,
          user_feedback, trace, page, outcome>>

\* ------------------------------------------------------------------------
\* Python values

None == <<>>
Some(v) == <<v>>
IsNone(o) == o = <<>>
The(o) == o[1]

\* sequences over S of length at most n
SeqUpTo(S, n) == UNION {[1..k -> S] : k \in 0..n}

\* ------------------------------------------------------------------------
\* Bounds of the model

MaxRoster == 2      \* rows of a roster
MaxQueryLen == 3    \* characters of an extracted player name
MaxDeviations == 2  \* fields in which a detail record differs from the full or the empty one
MaxGroups == 2      \* stat groups of a stats response
MaxSplits == 2      \* splits of a stat group
MaxWrites == 2      \* documents in the two collections together

\* ------------------------------------------------------------------------
\* Characters, str.strip, re.escape and the regular expression search of
\* Series.str.contains(pat, case=False, na=False)

Whitespace == {" "}
\* the characters re.escape puts a backslash before (those the model uses)
SpecialChars == {".", "(", " "}
QueryChars == {"a", "A", "b", ".", "(", " "}

Lower(c) == CASE c = "A" -> "a" [] c = "B" -> "b" [] OTHER -> c

RECURSIVE LStrip(_)
LStrip(s) == IF s # <<>> /\ Head(s) \in Whitespace THEN LStrip(Tail(s)) ELSE s

RECURSIVE RStrip(_)
RStrip(s) ==
    IF s # <<>> /\ s[Len(s)] \in Whitespace
    THEN RStrip(SubSeq(s, 1, Len(s) - 1)) ELSE s

\* str.strip()
Strip(s) == RStrip(LStrip(s))

\* re.escape left out: the pattern is the query itself
NoEscape(s) == s

\* re.escape(s): a backslash before every special character
RECURSIVE ReEscape(_)
ReEscape(s) ==
    IF s = <<>> THEN <<>>
    ELSE (IF Head(s) \in SpecialChars THEN <<"\\", Head(s)>> ELSE <<Head(s)>>)
         \o ReEscape(Tail(s))

\* The regular expression compiler on the characters of the model: the
\* atoms of the pattern, or an error.  "\c" is the literal c, "." is any
\* character, "(" opens a group that nothing in the alphabet closes (an
\* error: "missing ), unterminated subpattern"), a trailing backslash is an
\* error ("bad escape (end of pattern)"), anything else is a literal.
AnyChar == [any |-> TRUE]
Lit(c) == [lit |-> c]
ReError == [error |-> TRUE]

RECURSIVE ReCompileFrom(_, _)
ReCompileFrom(p, atoms) ==
    IF p = <<>> THEN [error |-> FALSE, atoms |-> atoms]
    ELSE IF Head(p) = "\\"
         THEN IF Len(p) = 1 THEN ReError
              ELSE ReCompileFrom(Tail(Tail(p)), Append(atoms, Lit(p[2])))
    ELSE IF Head(p) = "(" THEN ReError
    ELSE IF Head(p) = "." THEN ReCompileFrom(Tail(p), Append(atoms, AnyChar))
    ELSE ReCompileFrom(Tail(p), Append(atoms, Lit(Head(p))))

ReCompile(p) == ReCompileFrom(p, <<>>)

\* one atom against one character, under re.IGNORECASE
AtomMatches(atom, c) ==
    IF "any" \in DOMAIN atom THEN TRUE ELSE Lower(atom.lit) = Lower(c)

\* re.search: the atoms match s at some position
ReSearch(atoms, s) ==
    \E i \in 0..(Len(s) - Len(atoms)) :
        \A j \in 1..Len(atoms) : AtomMatches(atoms[j], s[i + j])

\* ------------------------------------------------------------------------
\* search_player_by_name

EmptyRosterMessage == <<"Players list is empty or unavailable.">>
NoMatchMessage(player_name) ==
    <<"No player found with the name '">> \o player_name \o <<"'.">>
SearchErrorMessage(e) == <<"Error during player search: ", e>>

\* players_df['fullName'].str.contains(pat, case=False, na=False), row by
\* row: a missing fullName (NaN) is no match
StrContains(fullName, atoms) ==
    IF IsNone(fullName) THEN FALSE ELSE ReSearch(atoms, The(fullName))

\* the first row of the filtered frame
FirstMatchingRow(rows, atoms) ==
    CHOOSE i \in 1..Len(rows) :
        /\ StrContains(rows[i].fullName, atoms)
        /\ \A k \in 1..(i - 1) : ~StrContains(rows[k].fullName, atoms)

\* the guard with the .empty test left out
RosterIsNone(players_df) == IsNone(players_df)

\* players_df is None or players_df.empty
RosterUnavailable(players_df) == IsNone(players_df) \/ The(players_df) = <<>>

search_player_by_name(players_df, player_name) ==
    IF RosterUnavailable(players_df)
    THEN [player_id |-> None, error_message |-> Some(EmptyRosterMessage)]
    ELSE LET rows == IF IsNone(players_df) THEN <<>> ELSE The(players_df)
             escaped_name == ReEscape(Strip(player_name))
             compiled == ReCompile(escaped_name)
         IN  IF compiled.error
             THEN [player_id |-> None,
                   error_message |-> Some(SearchErrorMessage("re.error"))]
             ELSE IF \A i \in 1..Len(rows) :
                        ~StrContains(rows[i].fullName, compiled.atoms)
             THEN [player_id |-> None,
                   error_message |-> Some(NoMatchMessage(player_name))]
             ELSE [player_id |->
                       Some(rows[FirstMatchingRow(rows, compiled.atoms)].id),
                   error_message |-> None]

\* Roster snapshots: None (the fetch failed), or rows {id, fullName} with
\* ids unique within the snapshot and fullName possibly missing.
NamePool == {<<"A", "b">>, <<"a", ".", "b">>, <<"a", "a", "b">>,
             <<"b", " ", "a">>, <<"(", "a">>}
FullNames == {Some(n) : n \in NamePool} \cup {None}
RowId(i) == 592450 + i
RosterOf(names) == [i \in 1..Len(names) |-> [id |-> RowId(i), fullName |-> names[i]]]
Rosters == {None} \cup {Some(RosterOf(names)) : names \in SeqUpTo(FullNames, MaxRoster)}
Queries == SeqUpTo(QueryChars, MaxQueryLen)

\* ------------------------------------------------------------------------
\* The session at rest, for the specifications of the pure functions

SessionIdle ==
    /\ uploaded_file = FALSE
    /\ email = ""
    /\ language = "English"
    /\ users = <<>>
    /\ user_feedback = <<>>
    /\ trace = <<>>
    /\ page = <<>>
    /\ outcome = "start"

\* ------------------------------------------------------------------------
\* Specification of the resolver: one call of search_player_by_name

InitResolve ==
    /\ call \in {[fn |-> "search_player_by_name", players_df |-> R, player_name |-> q] :
                    R \in Rosters, q \in Queries}
    /\ done = FALSE
    /\ ret = <<>>
    /\ SessionIdle

CallSearch ==
    /\ call.fn = "search_player_by_name"
    /\ ~done
    /\ done' = TRUE
    /\ ret' = search_player_by_name(call.players_df, call.player_name)
    /\ UNCHANGED <<call, sessionVars>>

NextResolve == CallSearch

SpecResolve == InitResolve /\ [][NextResolve]_vars

\* ------------------------------------------------------------------------
\* Claims about the resolver

\* name contains s as a literal substring, ignoring case
LiteralContains(name, s) ==
    \E i \in 0..(Len(name) - Len(s)) :
        \A j \in 1..Len(s) : Lower(name[i + j]) = Lower(s[j])

\* the rows of R whose fullName contains the stripped query
MatchingRows(R, q) ==
    {i \in 1..Len(R) :
        ~IsNone(R[i].fullName) /\ LiteralContains(The(R[i].fullName), Strip(q))}

Min(S) == CHOOSE x \in S : \A y \in S : x <= y

CallHasRows == ~IsNone(call.players_df) /\ The(call.players_df) # <<>>

\* C2: on a non-empty roster the search returns the id of the first row, in
\* roster order, whose fullName contains the stripped query as a literal
\* substring ignoring case, and the NoMatch fault exactly when no row does;
\* regex metacharacters in the query are matched literally and no error fault
\* comes back.
C2_FirstLiteralMatch ==
    (done /\ CallHasRows) =>
        LET R == The(call.players_df)
            m == MatchingRows(R, call.player_name)
        IN  IF m = {}
            THEN ret = [player_id |-> None,
                        error_message |-> Some(NoMatchMessage(call.player_name))]
            ELSE ret = [player_id |-> Some(R[Min(m)].id), error_message |-> None]

\* a query with a metacharacter and padding resolves to the second row, the
\* first row matching it only if "." were a wildcard
C2_Witness ==
    /\ done
    /\ call.player_name = <<"a", ".", "b">>
    /\ call.players_df = Some(RosterOf(<<Some(<<"a", "a", "b">>), Some(<<"a", ".", "b">>)>>))
    /\ ret.player_id = Some(RowId(2))

\* C3: an empty or null roster yields the EmptyRoster fault for every query,
\* and that fault differs from the NoMatch fault of the same query.
C3_EmptyRosterFault ==
    (done /\ ~CallHasRows) =>
        /\ ret = [player_id |-> None, error_message |-> Some(EmptyRosterMessage)]
        /\ ret.error_message # Some(NoMatchMessage(call.player_name))

\* an empty roster has been searched for a name and gave the EmptyRoster fault
C3_Witness ==
    /\ done
    /\ call.players_df = Some(<<>>)
    /\ call.player_name = <<"A", "b">>
    /\ ret.error_message = Some(EmptyRosterMessage)

\* ------------------------------------------------------------------------
\* The localization tables.  A character outside ASCII is written <U+XXXX>,
\* its code point.

\* dict.get(k, default)
DictGet(d, k, default) == IF k \in DOMAIN d THEN d[k] ELSE default

\* the empty dict {}
EmptyDict == <<>>

\* language_options.values(): what the language selectbox can yield
SupportedLanguages == {"English", "Spanish", "Japanese", "French", "Chinese"}

translations ==
    ("Full Name" :> [English |-> "Full Name", Spanish |-> "Nombre Completo", Japanese |-> "<U+30D5><U+30EB><U+30CD><U+30FC><U+30E0>", French |-> "Nom Complet", Chinese |-> "<U+5168><U+540D>"])
    @@ ("Primary Position" :> [English |-> "Primary Position", Spanish |-> "Posici<U+00F3>n Principal", Japanese |-> "<U+4E3B><U+306A><U+30DD><U+30B8><U+30B7><U+30E7><U+30F3>", French |-> "Position Principale", Chinese |-> "<U+4E3B><U+8981><U+4F4D><U+7F6E>"])
    @@ ("Jersey Number" :> [English |-> "Jersey Number", Spanish |-> "N<U+00FA>mero de Camisa", Japanese |-> "<U+30B8><U+30E3><U+30FC><U+30B8><U+756A><U+53F7>", French |-> "Num<U+00E9>ro de Maillot", Chinese |-> "<U+7403><U+8863><U+53F7><U+7801>"])
    @@ ("Birth Date" :> [English |-> "Birth Date", Spanish |-> "Fecha de Nacimiento", Japanese |-> "<U+751F><U+5E74><U+6708><U+65E5>", French |-> "Date de Naissance", Chinese |-> "<U+51FA><U+751F><U+65E5><U+671F>"])
    @@ ("Current Age" :> [English |-> "Current Age", Spanish |-> "Edad Actual", Japanese |-> "<U+73FE><U+5728><U+306E><U+5E74><U+9F62>", French |-> "<U+00C2>ge Actuel", Chinese |-> "<U+5F53><U+524D><U+5E74><U+9F84>"])
    @@ ("Birthplace" :> [English |-> "Birthplace", Spanish |-> "Lugar de Nacimiento", Japanese |-> "<U+51FA><U+751F><U+5730>", French |-> "Lieu de Naissance", Chinese |-> "<U+51FA><U+751F><U+5730>"])
    @@ ("Height" :> [English |-> "Height", Spanish |-> "Altura", Japanese |-> "<U+8EAB><U+9577>", French |-> "Taille", Chinese |-> "<U+8EAB><U+9AD8>"])
    @@ ("Weight (lbs)" :> [English |-> "Weight (lbs)", Spanish |-> "Peso (lbs)", Japanese |-> "<U+4F53><U+91CD> (<U+30DD><U+30F3><U+30C9>)", French |-> "Poids (lbs)", Chinese |-> "<U+4F53><U+91CD> (<U+78C5>)"])
    @@ ("Active Player" :> [English |-> "Active Player", Spanish |-> "Jugador Activo", Japanese |-> "<U+73FE><U+5F79><U+9078><U+624B>", French |-> "Joueur Actif", Chinese |-> "<U+73B0><U+5F79><U+7403><U+5458>"])
    @@ ("MLB Debut Date" :> [English |-> "MLB Debut Date", Spanish |-> "Fecha del Debut en MLB", Japanese |-> "MLB <U+30C7><U+30D3><U+30E5><U+30FC><U+65E5>", French |-> "Date des D<U+00E9>buts en MLB", Chinese |-> "MLB <U+9996><U+79C0><U+65E5><U+671F>"])
    @@ ("Bats" :> [English |-> "Bats", Spanish |-> "Batea", Japanese |-> "<U+6253><U+6483>", French |-> "Bats", Chinese |-> "<U+6253><U+51FB>"])
    @@ ("Throws" :> [English |-> "Throws", Spanish |-> "Lanza", Japanese |-> "<U+6295><U+3052><U+308B>", French |-> "Lance", Chinese |-> "<U+6295><U+63B7>"])
    @@ ("Nickname" :> [English |-> "Nickname", Spanish |-> "Apodo", Japanese |-> "<U+30CB><U+30C3><U+30AF><U+30CD><U+30FC><U+30E0>", French |-> "Surnom", Chinese |-> "<U+6635><U+79F0>"])

translations_stats ==
    ("Team" :> [Spanish |-> "Equipo", Japanese |-> "<U+30C1><U+30FC><U+30E0>", French |-> "<U+00C9>quipe", Chinese |-> "<U+7403><U+961F>"])
    @@ ("Player" :> [Spanish |-> "Jugador", Japanese |-> "<U+9078><U+624B>", French |-> "Joueur", Chinese |-> "<U+7403><U+5458>"])
    @@ ("League" :> [Spanish |-> "Liga", Japanese |-> "<U+30EA><U+30FC><U+30B0>", French |-> "Ligue", Chinese |-> "<U+8054><U+8D5B>"])
    @@ ("Sport" :> [Spanish |-> "Deporte", Japanese |-> "<U+30B9><U+30DD><U+30FC><U+30C4>", French |-> "Sport", Chinese |-> "<U+4F53><U+80B2>"])
    @@ ("Games Played" :> [Spanish |-> "Juegos Jugados", Japanese |-> "<U+8A66><U+5408><U+6570>", French |-> "Matchs jou<U+00E9>s", Chinese |-> "<U+6BD4><U+8D5B><U+573A><U+6B21>"])
    @@ ("Ground Outs" :> [Spanish |-> "Eliminaciones en Tierra", Japanese |-> "<U+30B4><U+30ED><U+30A2><U+30A6><U+30C8>", French |-> "Retir<U+00E9>s au sol", Chinese |-> "<U+6EDA><U+5730><U+51FA><U+5C40>"])
    @@ ("Air Outs" :> [Spanish |-> "Eliminaciones por Aire", Japanese |-> "<U+30D5><U+30E9><U+30A4><U+30A2><U+30A6><U+30C8>", French |-> "Retir<U+00E9>s en l'air", Chinese |-> "<U+98DE><U+7403><U+51FA><U+5C40>"])
    @@ ("Runs" :> [Spanish |-> "Carreras", Japanese |-> "<U+5F97><U+70B9>", French |-> "Points", Chinese |-> "<U+5F97><U+5206>"])
    @@ ("Doubles" :> [Spanish |-> "Dobles", Japanese |-> "<U+4E8C><U+5841><U+6253>", French |-> "Doubles", Chinese |-> "<U+4E8C><U+5792><U+6253>"])
    @@ ("Triples" :> [Spanish |-> "Triples", Japanese |-> "<U+4E09><U+5841><U+6253>", French |-> "Triples", Chinese |-> "<U+4E09><U+5792><U+6253>"])
    @@ ("Home Runs" :> [Spanish |-> "Jonrones", Japanese |-> "<U+672C><U+5841><U+6253>", French |-> "Circuits", Chinese |-> "<U+672C><U+5792><U+6253>"])
    @@ ("Strike Outs" :> [Spanish |-> "Ponches", Japanese |-> "<U+4E09><U+632F>", French |-> "Retir<U+00E9>s sur des prises", Chinese |-> "<U+4E09><U+632F><U+51FA><U+5C40>"])
    @@ ("Base On Balls" :> [Spanish |-> "Bases por Bolas", Japanese |-> "<U+56DB><U+7403>", French |-> "But sur balles", Chinese |-> "<U+56DB><U+574F><U+7403>"])
    @@ ("Hits" :> [Spanish |-> "Hits", Japanese |-> "<U+5B89><U+6253>", French |-> "Coups s<U+00FB>rs", Chinese |-> "<U+5B89><U+6253>"])
    @@ ("At Bats" :> [Spanish |-> "Turnos al Bate", Japanese |-> "<U+6253><U+6570>", French |-> "Pr<U+00E9>sences au b<U+00E2>ton", Chinese |-> "<U+6253><U+5E2D>"])
    @@ ("Stolen Bases" :> [Spanish |-> "Bases Robadas", Japanese |-> "<U+76D7><U+5841>", French |-> "But vol<U+00E9>", Chinese |-> "<U+76D7><U+5792>"])
    @@ ("RBI" :> [Spanish |-> "Carreras Impulsadas", Japanese |-> "<U+6253><U+70B9>", French |-> "Points produits", Chinese |-> "<U+6253><U+70B9>"])

\* a table in which Throws carries the labels of Bats
translate_attribute_merged(attribute_name, lang) ==
    DictGet(DictGet(translations,
                    IF attribute_name = "Throws" THEN "Bats" ELSE attribute_name,
                    EmptyDict),
            lang,
            IF attribute_name = "Throws" THEN "Bats" ELSE attribute_name)

\* a fallback that yields the placeholder instead of the key
translate_attribute_placeholder(attribute_name, lang) ==
    DictGet(DictGet(translations, attribute_name, EmptyDict), lang, "N/A")

\* (the parameter language is written lang: language is the session's variable)
translate_attribute(attribute_name, lang) ==
    DictGet(DictGet(translations, attribute_name, EmptyDict), lang, attribute_name)

get_translated_stat(stat_name, selected_lang) ==
    DictGet(DictGet(translations_stats, stat_name, EmptyDict), selected_lang, stat_name)

\* ------------------------------------------------------------------------
\* Specification of the lookups: one call of translate_attribute or of
\* get_translated_stat, on tabulated and untabulated keys and languages

LookupKeys ==
    DOMAIN translations \cup DOMAIN translations_stats
        \cup {"Stat", "Value", "Slugging", "full name", ""}
LookupLanguages == SupportedLanguages \cup {"German", "english", ""}

InitLocalize ==
    /\ call \in {[fn |-> "translate_attribute", attribute_name |-> k, language |-> l] :
                    k \in LookupKeys, l \in LookupLanguages}
               \cup {[fn |-> "get_translated_stat", stat_name |-> k, selected_lang |-> l] :
                    k \in LookupKeys, l \in LookupLanguages}
    /\ done = FALSE
    /\ ret = <<>>
    /\ SessionIdle

CallTranslateAttribute ==
    /\ call.fn = "translate_attribute"
    /\ ~done
    /\ done' = TRUE
    /\ ret' = translate_attribute(call.attribute_name, call.language)
    /\ UNCHANGED <<call, sessionVars>>

CallGetTranslatedStat ==
    /\ call.fn = "get_translated_stat"
    /\ ~done
    /\ done' = TRUE
    /\ ret' = get_translated_stat(call.stat_name, call.selected_lang)
    /\ UNCHANGED <<call, sessionVars>>

NextLocalize == CallTranslateAttribute \/ CallGetTranslatedStat

SpecLocalize == InitLocalize /\ [][NextLocalize]_vars

\* ------------------------------------------------------------------------
\* Claims about the lookups

\* the 13 canonical attributes, in the order key_attributes lists them
CanonicalAttributes ==
    <<"Full Name", "Primary Position", "Jersey Number", "Birth Date",
      "Current Age", "Birthplace", "Height", "Weight (lbs)", "Active Player",
      "MLB Debut Date", "Bats", "Throws", "Nickname">>

IsCanonicalAttribute(k) == \E i \in 1..Len(CanonicalAttributes) : CanonicalAttributes[i] = k

\* C4: translate_attribute returns the key unchanged for a key outside the
\* table (any language), for a tabulated key in a language outside the five
\* supported ones, and for a tabulated key in English.
C4_IdentityFallback ==
    (done /\ call.fn = "translate_attribute") =>
        /\ ~IsCanonicalAttribute(call.attribute_name) => ret = call.attribute_name
        /\ call.language \notin SupportedLanguages => ret = call.attribute_name
        /\ call.language = "English" => ret = call.attribute_name

\* a tabulated key looked up in an unsupported language came back unchanged
C4_Witness ==
    /\ done
    /\ call.fn = "translate_attribute"
    /\ call.attribute_name = "Weight (lbs)"
    /\ call.language = "German"
    /\ ret = "Weight (lbs)"

\* C5: the header labels "Stat" and "Value" are tabulated in the stat table:
\* in English the lookup returns the label itself and in the four other
\* languages the tabulated translation, not the key.
C5_HeaderTabulated ==
    (done /\ call.fn = "get_translated_stat" /\ call.stat_name \in {"Stat", "Value"}) =>
        /\ call.selected_lang = "English" => ret = call.stat_name
        /\ call.selected_lang \in SupportedLanguages \ {"English"} =>
              /\ call.stat_name \in DOMAIN translations_stats
              /\ call.selected_lang \in DOMAIN translations_stats[call.stat_name]
              /\ ret = translations_stats[call.stat_name][call.selected_lang]
              /\ ret # call.stat_name

\* ------------------------------------------------------------------------
\* JSON values of the service's payloads, as Python sees them

JNull == <<"null">>
JStr(s) == <<"str", s>>
JInt(n) == <<"int", n>>
JBool(b) == <<"bool", b>>
JObj(d) == <<"obj", d>>

IsObj(v) == v[1] = "obj"

\* bool(v) in a condition
Truthy(v) ==
    CASE v[1] = "null" -> FALSE
      [] v[1] = "bool" -> v[2]
      [] v[1] = "str" -> v[2] # ""
      [] v[1] = "int" -> v[2] # 0
      [] v[1] = "obj" -> DOMAIN v[2] # {}

\* what an f-string puts for {v}
PyStr(v) ==
    CASE v[1] = "null" -> "None"
      [] v[1] = "bool" -> (IF v[2] THEN "True" ELSE "False")
      [] v[1] = "str" -> v[2]
      [] v[1] = "int" -> ToString(v[2])
      [] v[1] = "obj" -> "{...}"

NA == JStr("N/A")

\* d.get(outer, {}).get(inner, "N/A"): None, or any value that is not a
\* dict, has no .get (AttributeError)
GetRaises(d, outer) == ~IsObj(DictGet(d, outer, JObj(EmptyDict)))
NestedGet(d, outer, inner) == DictGet(DictGet(d, outer, JObj(EmptyDict))[2], inner, NA)

\* ------------------------------------------------------------------------
\* The player summary formatter (the body of the Analyze action from
\* key_attributes to st.markdown(summary))

\* the active flag rendered as the placeholder when the flag is missing
ActivePlayerOrNA(player_info) ==
    IF "active" \notin DOMAIN player_info THEN NA
    ELSE JStr(IF Truthy(player_info["active"]) THEN "Yes" ELSE "No")

\* "Yes" if player_info.get("active") else "No"
ActivePlayer(player_info) ==
    JStr(IF Truthy(DictGet(player_info, "active", JNull)) THEN "Yes" ELSE "No")

\* the f-string of the three birth fields
Birthplace(player_info) ==
    JStr(PyStr(DictGet(player_info, "birthCity", NA)) \o ", "
         \o PyStr(DictGet(player_info, "birthStateProvince", NA)) \o ", "
         \o PyStr(DictGet(player_info, "birthCountry", NA)))

\* building key_attributes raises iff one of the three nested lookups does
KeyAttributesRaise(player_info) ==
    \/ GetRaises(player_info, "primaryPosition")
    \/ GetRaises(player_info, "batSide")
    \/ GetRaises(player_info, "pitchHand")

\* key_attributes, a dict in insertion order: the sequence of its items
key_attributes_of(player_info) ==
    << <<"Full Name", DictGet(player_info, "fullName", NA)>>,
       <<"Primary Position", NestedGet(player_info, "primaryPosition", "name")>>,
       <<"Jersey Number", DictGet(player_info, "primaryNumber", NA)>>,
       <<"Birth Date", DictGet(player_info, "birthDate", NA)>>,
       <<"Current Age", DictGet(player_info, "currentAge", NA)>>,
       <<"Birthplace", Birthplace(player_info)>>,
       <<"Height", DictGet(player_info, "height", NA)>>,
       <<"Weight (lbs)", DictGet(player_info, "weight", NA)>>,
       <<"Active Player", ActivePlayer(player_info)>>,
       <<"MLB Debut Date", DictGet(player_info, "mlbDebutDate", NA)>>,
       <<"Bats", NestedGet(player_info, "batSide", "description")>>,
       <<"Throws", NestedGet(player_info, "pitchHand", "description")>>,
       <<"Nickname", DictGet(player_info, "nickName", NA)>> >>

\* key_attributes[k]
KA(key_attributes, k) ==
    LET i == CHOOSE j \in 1..Len(key_attributes) : key_attributes[j][1] = k
    IN  key_attributes[i][2]

\* a dict built from items in order: a repeated key keeps its first place
\* and takes the last value
RECURSIVE DictFromItems(_, _)
DictFromItems(items, acc) ==
    IF items = <<>> THEN acc
    ELSE LET k == Head(items)[1]
             v == Head(items)[2]
         IN  IF \E j \in 1..Len(acc) : acc[j][1] = k
             THEN DictFromItems(Tail(items),
                      [j \in 1..Len(acc) |-> IF acc[j][1] = k THEN <<k, v>> ELSE acc[j]])
             ELSE DictFromItems(Tail(items), Append(acc, <<k, v>>))

\* {translate_attribute(k, language): v for k, v in key_attributes.items()}
translated_attributes_of(key_attributes, lang) ==
    DictFromItems(
        [i \in 1..Len(key_attributes) |->
            <<translate_attribute(key_attributes[i][1], lang), key_attributes[i][2]>>],
        <<>>)

\* pd.DataFrame(list(translated_attributes.items()), columns=["Attribute", "Value"])
details_df_of(translated_attributes) ==
    [columns |-> <<"Attribute", "Value">>, rows |-> translated_attributes]

\* The five prose templates.  A run of white space of the template is
\* written as one space.
\* lines 356-364
summary_Spanish(key_attributes) ==
    "**"
    \o PyStr(KA(key_attributes, "Full Name"))
    \o "**, conocido como \""
    \o PyStr(KA(key_attributes, "Nickname"))
    \o "\", es un "
    \o PyStr(KA(key_attributes, "Primary Position"))
    \o " que usa el n<U+00FA>mero de camiseta **"
    \o PyStr(KA(key_attributes, "Jersey Number"))
    \o "**. Naci<U+00F3> el **"
    \o PyStr(KA(key_attributes, "Birth Date"))
    \o "** en **"
    \o PyStr(KA(key_attributes, "Birthplace"))
    \o "**, y actualmente tiene **"
    \o PyStr(KA(key_attributes, "Current Age"))
    \o " a<U+00F1>os**. Mide **"
    \o PyStr(KA(key_attributes, "Height"))
    \o "** y pesa **"
    \o PyStr(KA(key_attributes, "Weight (lbs)"))
    \o " lbs**, batea como **"
    \o PyStr(KA(key_attributes, "Bats"))
    \o "** y lanza como **"
    \o PyStr(KA(key_attributes, "Throws"))
    \o "**. Este jugador hizo su debut en MLB el **"
    \o PyStr(KA(key_attributes, "MLB Debut Date"))
    \o "** y actualmente est<U+00E1> **activo** en la liga."

\* lines 366-374
summary_Japanese(key_attributes) ==
    "**"
    \o PyStr(KA(key_attributes, "Full Name"))
    \o "**<U+3001><U+30CB><U+30C3><U+30AF><U+30CD><U+30FC><U+30E0><U+306F>\""
    \o PyStr(KA(key_attributes, "Nickname"))
    \o "\"<U+3001><U+30DD><U+30B8><U+30B7><U+30E7><U+30F3><U+306F>"
    \o PyStr(KA(key_attributes, "Primary Position"))
    \o "<U+3067> <U+80CC><U+756A><U+53F7><U+306F>**"
    \o PyStr(KA(key_attributes, "Jersey Number"))
    \o "**<U+3067><U+3059><U+3002>**"
    \o PyStr(KA(key_attributes, "Birth Date"))
    \o "**<U+306B><U+751F><U+307E><U+308C><U+3001> **"
    \o PyStr(KA(key_attributes, "Birthplace"))
    \o "**<U+51FA><U+8EAB><U+3067><U+3001><U+73FE><U+5728><U+306E><U+5E74><U+9F62><U+306F>**"
    \o PyStr(KA(key_attributes, "Current Age"))
    \o "<U+6B73>**<U+3067><U+3059><U+3002> <U+8EAB><U+9577><U+306F>**"
    \o PyStr(KA(key_attributes, "Height"))
    \o "**<U+3001><U+4F53><U+91CD><U+306F>**"
    \o PyStr(KA(key_attributes, "Weight (lbs)"))
    \o " lbs**<U+3001><U+6253><U+5E2D><U+306F>**"
    \o PyStr(KA(key_attributes, "Bats"))
    \o "** <U+3001><U+6295><U+3052><U+308B><U+624B><U+306F>**"
    \o PyStr(KA(key_attributes, "Throws"))
    \o "**<U+3067><U+3059><U+3002><U+3053><U+306E><U+9078><U+624B><U+306F>**"
    \o PyStr(KA(key_attributes, "MLB Debut Date"))
    \o "**<U+306B><U+30E1><U+30B8><U+30E3><U+30FC><U+30C7><U+30D3><U+30E5><U+30FC><U+3057><U+3001><U+73FE><U+5728> "
    \o (IF KA(key_attributes, "Active Player") = JStr("Yes") THEN "<U+73FE><U+5F79>" ELSE "<U+5F15><U+9000>")
    \o "<U+3057><U+3066><U+3044><U+307E><U+3059><U+3002>"

\* lines 376-384
summary_French(key_attributes) ==
    "**"
    \o PyStr(KA(key_attributes, "Full Name"))
    \o "**, surnomm<U+00E9> \""
    \o PyStr(KA(key_attributes, "Nickname"))
    \o "\", est un joueur de "
    \o PyStr(KA(key_attributes, "Primary Position"))
    \o " avec le num<U+00E9>ro de maillot **"
    \o PyStr(KA(key_attributes, "Jersey Number"))
    \o "**. N<U+00E9> le **"
    \o PyStr(KA(key_attributes, "Birth Date"))
    \o "** <U+00E0> **"
    \o PyStr(KA(key_attributes, "Birthplace"))
    \o "**, il a actuellement **"
    \o PyStr(KA(key_attributes, "Current Age"))
    \o " ans**. Il mesure **"
    \o PyStr(KA(key_attributes, "Height"))
    \o "** et p<U+00E8>se **"
    \o PyStr(KA(key_attributes, "Weight (lbs)"))
    \o " lbs**, il frappe en **"
    \o PyStr(KA(key_attributes, "Bats"))
    \o "** et lance avec **"
    \o PyStr(KA(key_attributes, "Throws"))
    \o "**. Ce joueur a fait ses d<U+00E9>buts en MLB le **"
    \o PyStr(KA(key_attributes, "MLB Debut Date"))
    \o "** et il est actuellement "
    \o (IF KA(key_attributes, "Active Player") = JStr("Yes") THEN "actif" ELSE "inactif")
    \o " dans la ligue."

\* lines 386-394
summary_Chinese(key_attributes) ==
    "**"
    \o PyStr(KA(key_attributes, "Full Name"))
    \o "**<U+FF0C><U+6635><U+79F0><U+4E3A><U+201C>"
    \o PyStr(KA(key_attributes, "Nickname"))
    \o "<U+201D><U+FF0C><U+662F><U+4E00><U+540D> **"
    \o PyStr(KA(key_attributes, "Primary Position"))
    \o "** <U+7403><U+5458><U+FF0C> <U+80CC><U+53F7><U+4E3A> **"
    \o PyStr(KA(key_attributes, "Jersey Number"))
    \o "**<U+3002><U+4ED6><U+4E8E> **"
    \o PyStr(KA(key_attributes, "Birth Date"))
    \o "** <U+51FA><U+751F><U+5728> **"
    \o PyStr(KA(key_attributes, "Birthplace"))
    \o "**<U+FF0C> <U+73B0><U+5E74> **"
    \o PyStr(KA(key_attributes, "Current Age"))
    \o " <U+5C81>**<U+3002> <U+4ED6><U+8EAB><U+9AD8> **"
    \o PyStr(KA(key_attributes, "Height"))
    \o "**<U+FF0C><U+4F53><U+91CD> **"
    \o PyStr(KA(key_attributes, "Weight (lbs)"))
    \o " <U+78C5>**<U+FF0C><U+6253><U+51FB><U+4E60><U+60EF><U+4E3A> **"
    \o PyStr(KA(key_attributes, "Bats"))
    \o "**<U+FF0C> <U+6295><U+7403><U+4E60><U+60EF><U+4E3A> **"
    \o PyStr(KA(key_attributes, "Throws"))
    \o "**<U+3002><U+8FD9><U+4F4D><U+7403><U+5458><U+5728> **"
    \o PyStr(KA(key_attributes, "MLB Debut Date"))
    \o "** <U+5B8C><U+6210><U+4E86><U+4ED6><U+7684> MLB <U+9996><U+79C0><U+FF0C> <U+4ED6><U+76EE><U+524D><U+5728><U+8054><U+76DF><U+4E2D><U+662F> **"
    \o (IF KA(key_attributes, "Active Player") = JStr("Yes") THEN "<U+6D3B><U+8DC3>" ELSE "<U+975E><U+6D3B><U+8DC3>")
    \o "** <U+72B6><U+6001><U+3002>"

\* lines 396-404
summary_English(key_attributes) ==
    "**"
    \o PyStr(KA(key_attributes, "Full Name"))
    \o "**, also known as \""
    \o PyStr(KA(key_attributes, "Nickname"))
    \o "\", is a "
    \o PyStr(KA(key_attributes, "Primary Position"))
    \o " wearing jersey number **"
    \o PyStr(KA(key_attributes, "Jersey Number"))
    \o "**. Born on **"
    \o PyStr(KA(key_attributes, "Birth Date"))
    \o "** in **"
    \o PyStr(KA(key_attributes, "Birthplace"))
    \o "**, they are currently **"
    \o PyStr(KA(key_attributes, "Current Age"))
    \o " years old**. Standing at **"
    \o PyStr(KA(key_attributes, "Height"))
    \o "** and weighing **"
    \o PyStr(KA(key_attributes, "Weight (lbs)"))
    \o " lbs**, they bat **"
    \o PyStr(KA(key_attributes, "Bats"))
    \o "** and throw **"
    \o PyStr(KA(key_attributes, "Throws"))
    \o "**. This player made their MLB debut on **"
    \o PyStr(KA(key_attributes, "MLB Debut Date"))
    \o "** and is currently **"
    \o PyStr(KA(key_attributes, "Active Player"))
    \o "** in the league."

\* the if/elif chain on language
summary_of(key_attributes, lang) ==
    CASE lang = "Spanish" -> summary_Spanish(key_attributes)
      [] lang = "Japanese" -> summary_Japanese(key_attributes)
      [] lang = "French" -> summary_French(key_attributes)
      [] lang = "Chinese" -> summary_Chinese(key_attributes)
      [] OTHER -> summary_English(key_attributes)

\* what the formatter shows: the attribute table and the prose summary, or
\* the exception it raises
player_summary(player_info, lang) ==
    IF KeyAttributesRaise(player_info)
    THEN [raised |-> TRUE, exception |-> "AttributeError"]
    ELSE LET key_attributes == key_attributes_of(player_info)
         IN  [raised |-> FALSE,
              details_df |-> details_df_of(translated_attributes_of(key_attributes, lang)),
              summary |-> summary_of(key_attributes, lang)]

\* Detail records.  Each field is absent, null or holds a value; a nested
\* object may also be empty.  The records of the model differ from the full
\* record, or from the empty one, in at most MaxDeviations fields.
DetailFields ==
    {"fullName", "primaryPosition", "primaryNumber", "birthDate", "currentAge",
     "birthCity", "birthStateProvince", "birthCountry", "height", "weight",
     "active", "mlbDebutDate", "batSide", "pitchHand", "nickName"}

FullRecord ==
    [fullName |-> JStr("Aaron Judge"),
     primaryPosition |-> JObj([name |-> JStr("Outfielder")]),
     primaryNumber |-> JStr("99"),
     birthDate |-> JStr("1992-04-26"),
     currentAge |-> JInt(32),
     birthCity |-> JStr("Linden"),
     birthStateProvince |-> JStr("CA"),
     birthCountry |-> JStr("USA"),
     height |-> JStr("6' 7\""),
     weight |-> JInt(282),
     active |-> JBool(TRUE),
     mlbDebutDate |-> JStr("2016-08-13"),
     batSide |-> JObj([description |-> JStr("Right")]),
     pitchHand |-> JObj([description |-> JStr("Right")]),
     nickName |-> JStr("All Rise")]

FieldStates == {"absent", "null", "value", "empty", "false"}

FieldStateAllowed(f, st) ==
    CASE st = "empty" -> IsObj(FullRecord[f])
      [] st = "false" -> f = "active"
      [] OTHER -> TRUE

\* the field f in state st: None when absent, else its value
FieldIn(f, st) ==
    CASE st = "absent" -> None
      [] st = "null" -> Some(JNull)
      [] st = "value" -> Some(FullRecord[f])
      [] st = "empty" -> Some(JObj(EmptyDict))
      [] st = "false" -> Some(JBool(FALSE))

\* the dict whose fields are in the states sts
RecordOf(sts) ==
    [f \in {g \in DetailFields : sts[g] # "absent"} |-> The(FieldIn(f, sts[f]))]

AllIn(st) == [f \in DetailFields |-> st]

DeviationsOf(base) ==
    UNION {{[f \in DetailFields |-> IF f \in S THEN g[f] ELSE base[f]] :
                g \in {h \in [S -> FieldStates] : \A f \in S : FieldStateAllowed(f, h[f])}} :
           S \in {T \in SUBSET DetailFields : Cardinality(T) <= MaxDeviations}}

DetailRecords ==
    {RecordOf(sts) : sts \in DeviationsOf(AllIn("value")) \cup DeviationsOf(AllIn("absent"))}

\* the selectbox yields one of the five; any other code takes the else arm
FormatLanguages == SupportedLanguages \cup {"German"}

\* ------------------------------------------------------------------------
\* Specification of the formatter: one detail record formatted in one
\* language

InitFormat ==
    /\ call \in {[fn |-> "player_summary", player_info |-> r, language |-> l] :
                    r \in DetailRecords, l \in FormatLanguages}
    /\ done = FALSE
    /\ ret = <<>>
    /\ SessionIdle

CallPlayerSummary ==
    /\ call.fn = "player_summary"
    /\ ~done
    /\ done' = TRUE
    /\ ret' = player_summary(call.player_info, call.language)
    /\ UNCHANGED <<call, sessionVars>>

NextFormat == CallPlayerSummary

SpecFormat == InitFormat /\ [][NextFormat]_vars


\* ------------------------------------------------------------------------
\* Claims about the formatter

CallIsFormat == done /\ call.fn = "player_summary"

\* the table has the 13 canonical rows in order, labelled in the call's
\* language, and the row of attribute k holds expected[k]
TableShows(expected) ==
    /\ ~ret.raised
    /\ ret.details_df.columns = <<"Attribute", "Value">>
    /\ Len(ret.details_df.rows) = Len(CanonicalAttributes)
    /\ \A i \in 1..Len(CanonicalAttributes) :
          ret.details_df.rows[i] =
              <<translate_attribute(CanonicalAttributes[i], call.language),
                expected[CanonicalAttributes[i]]>>

AttributeSet == {CanonicalAttributes[i] : i \in 1..Len(CanonicalAttributes)}

\* C6 as stated: a record with every field absent formats without fault and
\* every attribute reads "N/A", Birthplace reading "N/A, N/A, N/A".
C6_AllAbsentAllNA ==
    (CallIsFormat /\ DOMAIN call.player_info = {}) =>
        TableShows([k \in AttributeSet |->
                       IF k = "Birthplace" THEN JStr("N/A, N/A, N/A") ELSE NA])

\* C6 (amended): a record with every field absent formats without fault;
\* Birthplace reads "N/A, N/A, N/A", Active Player reads "No" and each of
\* the other 11 attributes reads "N/A".
C6_AllAbsentAmended ==
    (CallIsFormat /\ DOMAIN call.player_info = {}) =>
        TableShows([k \in AttributeSet |->
                       CASE k = "Birthplace" -> JStr("N/A, N/A, N/A")
                         [] k = "Active Player" -> JStr("No")
                         [] OTHER -> NA])

\* the empty record has been formatted, in a language that relabels the rows
C6_Witness ==
    /\ CallIsFormat
    /\ DOMAIN call.player_info = {}
    /\ call.language = "Japanese"
    /\ ~ret.raised
    /\ Len(ret.details_df.rows) = 13

\* C10: in each of the five languages, a record whose active flag is true
\* and the same record with the flag false get different summaries (they
\* differ in the active-state phrase only).
C10_ActivePhraseFollowsFlag ==
    (/\ CallIsFormat
     /\ call.language \in SupportedLanguages
     /\ ~ret.raised
     /\ "active" \in DOMAIN call.player_info
     /\ call.player_info["active"] = JBool(TRUE)) =>
        LET inactive == [call.player_info EXCEPT !["active"] = JBool(FALSE)]
        IN  player_summary(inactive, call.language).summary # ret.summary

\* the field is not in the record, or is null there
FieldMissing(player_info, f) ==
    f \notin DOMAIN player_info \/ player_info[f] = JNull

\* the attributes that show one field each, with that field (Active Player
\* shows Yes or No, and Birthplace three fields)
FieldOfAttribute ==
    [k \in AttributeSet \ {"Birthplace", "Active Player"} |->
        CASE k = "Full Name" -> "fullName"
          [] k = "Primary Position" -> "primaryPosition"
          [] k = "Jersey Number" -> "primaryNumber"
          [] k = "Birth Date" -> "birthDate"
          [] k = "Current Age" -> "currentAge"
          [] k = "Height" -> "height"
          [] k = "Weight (lbs)" -> "weight"
          [] k = "MLB Debut Date" -> "mlbDebutDate"
          [] k = "Bats" -> "batSide"
          [] k = "Throws" -> "pitchHand"
          [] k = "Nickname" -> "nickName"]

\* one part of Birthplace, with the placeholder for a missing field
BirthPart(player_info, f) ==
    IF FieldMissing(player_info, f) THEN "N/A" ELSE PyStr(player_info[f])

\* the value the table shows for attribute k
ValueShown(k) ==
    LET i == CHOOSE j \in 1..Len(CanonicalAttributes) : CanonicalAttributes[j] = k
    IN  ret.details_df.rows[i][2]

\* C11: every detail record, each field of it present, absent or null,
\* formats without a fault into the table of 13 attributes and the summary,
\* and each attribute that shows a field reads "N/A" when the field is
\* absent or null (each part of Birthplace likewise).
C11_MissingFieldsReadNA ==
    CallIsFormat =>
        /\ ~ret.raised
        /\ Len(ret.details_df.rows) = Len(CanonicalAttributes)
        /\ \A k \in DOMAIN FieldOfAttribute :
              FieldMissing(call.player_info, FieldOfAttribute[k]) => ValueShown(k) = NA
        /\ ValueShown("Birthplace") =
              JStr(BirthPart(call.player_info, "birthCity") \o ", "
                   \o BirthPart(call.player_info, "birthStateProvince") \o ", "
                   \o BirthPart(call.player_info, "birthCountry"))

\* C15: in each of the five languages and in an unsupported one, the labels
\* of the 13 canonical attributes are pairwise distinct, and the table that
\* is rendered has exactly 13 rows, row i labelled with the translation of
\* the i-th canonical attribute (Full Name first, Nickname last): no two
\* rows are merged and none is dropped.
C15_ThirteenRowsInOrder ==
    (CallIsFormat /\ ~ret.raised) =>
        /\ \A i, j \in 1..Len(CanonicalAttributes) :
              translate_attribute(CanonicalAttributes[i], call.language) =
                  translate_attribute(CanonicalAttributes[j], call.language) => i = j
        /\ Len(CanonicalAttributes) = 13
        /\ Len(ret.details_df.rows) = 13
        /\ \A i \in 1..13 :
              ret.details_df.rows[i][1] =
                  translate_attribute(CanonicalAttributes[i], call.language)
        /\ \A i, j \in 1..13 :
              ret.details_df.rows[i][1] = ret.details_df.rows[j][1] => i = j

\* the full record has been tabulated in Chinese, under translated labels
C15_Witness ==
    /\ CallIsFormat
    /\ call.language = "Chinese"
    /\ call.player_info = FullRecord
    /\ ~ret.raised
    /\ Len(ret.details_df.rows) = 13
    /\ ret.details_df.rows[1] = <<translations["Full Name"]["Chinese"], JStr("Aaron Judge")>>
    /\ ret.details_df.rows[13] = <<translations["Nickname"]["Chinese"], JStr("All Rise")>>
    /\ translations["Nickname"]["Chinese"] # "Nickname"


\* ------------------------------------------------------------------------
\* The stat flattening loop (the body of the Analyze action after
\* get_player_stats)

JList(xs) == <<"list", xs>>

\* bool(v) of a value that may be a list
TruthyValue(v) == IF v[1] = "list" THEN v[2] # <<>> ELSE Truthy(v)

season == 2024

\* st.write / st.dataframe: the elements the loop puts on the page
Written(text) == [kind |-> "write", text |-> text]
Dataframe(df) == [kind |-> "dataframe", columns |-> df.columns, rows |-> df.rows]

NoDataText == "No data available for this group."
StatsTitle(full_name) ==
    "**" \o PyStr(full_name) \o "** - " \o ToString(season) \o " Season Stats:"

\* the three nested lookups of flattened_split raise on a value without .get
FlattenedSplitRaises(split) ==
    \/ GetRaises(split, "team")
    \/ GetRaises(split, "player")
    \/ GetRaises(split, "stat")

\* flattened_split with two counters taken from each other's field
flattened_split_swapped(split) ==
    << <<"Team", NestedGet(split, "team", "name")>>,
       <<"Player", NestedGet(split, "player", "fullName")>>,
       <<"Games Played", NestedGet(split, "stat", "gamesPlayed")>>,
       <<"Runs", NestedGet(split, "stat", "hits")>>,
       <<"Hits", NestedGet(split, "stat", "runs")>>,
       <<"Home Runs", NestedGet(split, "stat", "homeRuns")>>,
       <<"Stolen Bases", NestedGet(split, "stat", "stolenBases")>>,
       <<"RBI", NestedGet(split, "stat", "rbi")>> >>

\* flattened_split, a dict in insertion order: the sequence of its items
flattened_split(split) ==
    << <<"Team", NestedGet(split, "team", "name")>>,
       <<"Player", NestedGet(split, "player", "fullName")>>,
       <<"Games Played", NestedGet(split, "stat", "gamesPlayed")>>,
       <<"Runs", NestedGet(split, "stat", "runs")>>,
       <<"Hits", NestedGet(split, "stat", "hits")>>,
       <<"Home Runs", NestedGet(split, "stat", "homeRuns")>>,
       <<"Stolen Bases", NestedGet(split, "stat", "stolenBases")>>,
       <<"RBI", NestedGet(split, "stat", "rbi")>> >>

\* pd.DataFrame(cleaned_data) of dicts with the same keys: the columns are
\* the keys in order, each row the values.  A column of Python ints is an
\* int64 column, one that mixes ints and "N/A" an object column; either
\* holds the values it was given.
DataFrameOf(cleaned_data) ==
    [columns |-> IF cleaned_data = <<>> THEN <<>>
                 ELSE [j \in 1..Len(cleaned_data[1]) |-> cleaned_data[1][j][1]],
     rows |-> [i \in 1..Len(cleaned_data) |->
                  [j \in 1..Len(cleaned_data[i]) |-> cleaned_data[i][j][2]]]]

\* xs without the entries equal to x
RECURSIVE Without(_, _)
Without(xs, x) ==
    IF xs = <<>> THEN <<>>
    ELSE IF Head(xs) = x THEN Without(Tail(xs), x)
    ELSE <<Head(xs)>> \o Without(Tail(xs), x)

ColumnIndex(df, c) == CHOOSE j \in 1..Len(df.columns) : df.columns[j] = c

\* stats_df.drop(columns=[c]) when c is a column, else stats_df
DropColumn(df, c) ==
    IF ~\E j \in 1..Len(df.columns) : df.columns[j] = c THEN df
    ELSE LET keep == Without(df.columns, c)
         IN  [columns |-> keep,
              rows |-> [i \in 1..Len(df.rows) |->
                           [j \in 1..Len(keep) |-> df.rows[i][ColumnIndex(df, keep[j])]]]]

\* DataFrame.empty: no rows or no columns
IsEmptyFrame(df) == df.rows = <<>> \/ df.columns = <<>>

\* pd.melt(df, var_name="Stat", value_name="Value"): column by column, and
\* within a column row by row
Melt(df) ==
    LET n == Len(df.rows)
        m == Len(df.columns)
    IN  [columns |-> <<"Stat", "Value">>,
         rows |-> [e \in 1..(m * n) |->
                      <<df.columns[((e - 1) \div n) + 1],
                        df.rows[((e - 1) % n) + 1][((e - 1) \div n) + 1]>>]]

\* the Stat cells translated, then the two headers renamed through the same
\* lookup
TranslateFrame(df, lang) ==
    [columns |-> <<get_translated_stat(df.columns[1], lang),
                   get_translated_stat(df.columns[2], lang)>>,
     rows |-> [e \in 1..Len(df.rows) |->
                  <<get_translated_stat(df.rows[e][1], lang), df.rows[e][2]>>]]

\* the body of "for split in stats_splits": each pass appends one split and
\* shows the table of all the splits appended so far
RECURSIVE SplitsLoop(_, _, _, _)
SplitsLoop(stats_splits, cleaned_data, shown, lang) ==
    IF stats_splits = <<>> THEN [raised |-> FALSE, shown |-> shown]
    ELSE IF FlattenedSplitRaises(Head(stats_splits))
    THEN [raised |-> TRUE, exception |-> "AttributeError", shown |-> shown]
    ELSE LET data == Append(cleaned_data, flattened_split(Head(stats_splits)))
             stats_df == DropColumn(DataFrameOf(data), "Player")
             element == IF ~IsEmptyFrame(stats_df)
                        THEN Dataframe(TranslateFrame(Melt(stats_df), lang))
                        ELSE Written(NoDataText)
         IN  SplitsLoop(Tail(stats_splits), data, Append(shown, element), lang)

\* the body of "for stat_group in player_stats": the title, then the splits
\* loop when stat_group.get('splits', []) is truthy.  (group_name and
\* stats_type are computed and never shown.)
RECURSIVE GroupsLoop(_, _, _, _)
GroupsLoop(groups, full_name, shown, lang) ==
    IF groups = <<>> THEN [raised |-> FALSE, shown |-> shown]
    ELSE LET stats_splits == DictGet(Head(groups), "splits", JList(<<>>))
             titled == Append(shown, Written(StatsTitle(full_name)))
             inner == IF TruthyValue(stats_splits)
                      THEN SplitsLoop(stats_splits[2], <<>>, titled, lang)
                      ELSE [raised |-> FALSE, shown |-> titled]
         IN  IF inner.raised THEN inner
             ELSE GroupsLoop(Tail(groups), full_name, inner.shown, lang)

\* "if player_stats:" and the loop: what the page shows for the stats
flatten_stats(player_stats, full_name, lang) ==
    IF IsNone(player_stats) \/ The(player_stats) = <<>>
    THEN [raised |-> FALSE, shown |-> <<>>]
    ELSE GroupsLoop(The(player_stats), full_name, <<>>, lang)

\* Stat splits of the model: two with all six counters (one with zeros),
\* one with a single counter and no team
SplitA ==
    [team |-> JObj([name |-> JStr("New York Yankees")]),
     player |-> JObj([fullName |-> JStr("Aaron Judge")]),
     stat |-> JObj([gamesPlayed |-> JInt(158), runs |-> JInt(122), hits |-> JInt(180),
                    homeRuns |-> JInt(58), stolenBases |-> JInt(10), rbi |-> JInt(144),
                    doubles |-> JInt(36)])]
SplitB ==
    [team |-> JObj([name |-> JStr("Oakland Athletics")]),
     player |-> JObj([fullName |-> JStr("Aaron Judge")]),
     stat |-> JObj([gamesPlayed |-> JInt(5), runs |-> JInt(0), hits |-> JInt(1),
                    homeRuns |-> JInt(0), stolenBases |-> JInt(0), rbi |-> JInt(2)])]
SplitC ==
    [player |-> JObj([fullName |-> JStr("Aaron Judge")]),
     stat |-> JObj([gamesPlayed |-> JInt(3)])]
SplitPool == {SplitA, SplitB, SplitC}

\* a stat group: splits absent, or a list of at most MaxSplits splits, one
\* per team (no split twice)
GroupLabels == [group |-> JObj([displayName |-> JStr("hitting")]),
                type |-> JObj([displayName |-> JStr("season")])]
SplitLists ==
    {s \in SeqUpTo(SplitPool, MaxSplits) :
        \A i \in 1..Len(s) : \A j \in 1..Len(s) : s[i] = s[j] => i = j}
StatGroups ==
    {GroupLabels}
        \cup {[group |-> GroupLabels.group, type |-> GroupLabels.type, splits |-> JList(s)] :
                 s \in SplitLists}

\* get_player_stats: None on a fault, else a list of at most MaxGroups groups
PlayerStats == {None} \cup {Some(gs) : gs \in SeqUpTo(StatGroups, MaxGroups)}

\* ------------------------------------------------------------------------
\* Specification of the stat flattening: one stats response shown in one
\* language

InitFlatten ==
    /\ call \in {[fn |-> "flatten_stats", player_stats |-> ps,
                  full_name |-> JStr("Aaron Judge"), language |-> l] :
                    ps \in PlayerStats, l \in SupportedLanguages}
    /\ done = FALSE
    /\ ret = <<>>
    /\ SessionIdle

CallFlattenStats ==
    /\ call.fn = "flatten_stats"
    /\ ~done
    /\ done' = TRUE
    /\ ret' = flatten_stats(call.player_stats, call.full_name, call.language)
    /\ UNCHANGED <<call, sessionVars>>

NextFlatten == CallFlattenStats

SpecFlatten == InitFlatten /\ [][NextFlatten]_vars


\* ------------------------------------------------------------------------
\* Claims about the stat flattening

CallIsFlatten == done /\ call.fn = "flatten_stats"

\* the groups of the call's stats response
CallGroups == IF IsNone(call.player_stats) THEN <<>> ELSE The(call.player_stats)

\* the splits of a group, an absent list read as the empty one
SplitsOf(stat_group) ==
    IF "splits" \in DOMAIN stat_group THEN stat_group["splits"][2] ELSE <<>>

CountWhere(xs, P(_)) == Cardinality({i \in 1..Len(xs) : P(xs[i])})

IsSentinel(element) == element.kind = "write" /\ element.text = NoDataText
IsTable(element) == element.kind = "dataframe"

\* C7: a response whose groups all have an empty or absent splits list is
\* shown without raising, with exactly one "no data available" element per
\* group and no table.
C7_SentinelPerEmptyGroup ==
    (/\ CallIsFlatten
     /\ CallGroups # <<>>
     /\ \A g \in 1..Len(CallGroups) : SplitsOf(CallGroups[g]) = <<>>) =>
        /\ ~ret.raised
        /\ CountWhere(ret.shown, IsSentinel) = Len(CallGroups)
        /\ CountWhere(ret.shown, IsTable) = 0

\* the six counters: the field of the stat record and the row's label
Counters ==
    {<<"gamesPlayed", "Games Played">>, <<"runs", "Runs">>, <<"hits", "Hits">>,
     <<"homeRuns", "Home Runs">>, <<"stolenBases", "Stolen Bases">>, <<"rbi", "RBI">>}

HasAllCounters(split) ==
    /\ "stat" \in DOMAIN split
    /\ IsObj(split["stat"])
    /\ \A c \in Counters : c[1] \in DOMAIN split["stat"][2]

\* the number of elements shown before the title of group g
RECURSIVE ShownBefore(_)
ShownBefore(g) ==
    IF g = 1 THEN 0
    ELSE ShownBefore(g - 1) + 1 + Len(SplitsOf(CallGroups[g - 1]))

\* what the pass over split k of group g shows
ShownAtPass(g, k) == ret.shown[ShownBefore(g) + 1 + k]

\* C8: for a split with all six counters, the table shown by its pass of the
\* loop, and by every later pass over the same group, has for each counter a
\* row whose name is the counter's label in the call's language and whose
\* value is the counter's value in the response, unchanged.
C8_CountersRoundTrip ==
    CallIsFlatten =>
        /\ ~ret.raised
        /\ \A g \in 1..Len(CallGroups) :
             \A i \in 1..Len(SplitsOf(CallGroups[g])) :
                HasAllCounters(SplitsOf(CallGroups[g])[i]) =>
                    \A k \in i..Len(SplitsOf(CallGroups[g])) :
                        /\ IsTable(ShownAtPass(g, k))
                        /\ \A c \in Counters :
                             \E e \in 1..Len(ShownAtPass(g, k).rows) :
                                ShownAtPass(g, k).rows[e] =
                                    <<get_translated_stat(c[2], call.language),
                                      SplitsOf(CallGroups[g])[i]["stat"][2][c[1]]>>

\* a group of two splits with all counters, one of them with zeros, has been
\* shown in a language that relabels the rows
C8_Witness ==
    /\ CallIsFlatten
    /\ call.language = "Japanese"
    /\ Len(CallGroups) = 2
    /\ SplitsOf(CallGroups[2]) = <<SplitA, SplitB>>
    /\ ~ret.raised
    /\ IsTable(ret.shown[Len(ret.shown)])
    /\ Len(ret.shown[Len(ret.shown)].rows) = 14

\* the positions of the group titles among the elements shown
TitlePositions ==
    {p \in 1..Len(ret.shown) : ret.shown[p] = Written(StatsTitle(call.full_name))}

\* the position of the title of group g, and of the last element of group g
TitleOf(g) ==
    CHOOSE p \in TitlePositions : Cardinality({q \in TitlePositions : q <= p}) = g
LastOf(g) ==
    IF g = Cardinality(TitlePositions) THEN Len(ret.shown) ELSE TitleOf(g + 1) - 1

\* the tables shown for group g
TablesOf(g) == {p \in (TitleOf(g) + 1)..LastOf(g) : IsTable(ret.shown[p])}

\* C12: every group is shown under its title, and a group with n >= 1
\* splits gets exactly one table, of two columns and 7*n rows (Team and the
\* six counters of each split), none of them a Player row.
C12_OneTablePerGroup ==
    CallIsFlatten =>
        /\ ~ret.raised
        /\ Cardinality(TitlePositions) = Len(CallGroups)
        /\ \A g \in 1..Len(CallGroups) :
             LET n == Len(SplitsOf(CallGroups[g]))
             IN  n >= 1 =>
                    /\ Cardinality(TablesOf(g)) = 1
                    /\ \A p \in TablesOf(g) :
                          /\ Len(ret.shown[p].columns) = 2
                          /\ Len(ret.shown[p].rows) = 7 * n
                          /\ \A e \in 1..Len(ret.shown[p].rows) :
                                ret.shown[p].rows[e][1] #
                                    get_translated_stat("Player", call.language)


\* ------------------------------------------------------------------------
\* The Streamlit session.  Every interaction reruns the script from the
\* top; an action below is one rerun, with at most one button pressed.

\* a str given by its characters, as text
RECURSIVE Join(_)
Join(s) == IF s = <<>> THEN "" ELSE Head(s) \o Join(Tail(s))

\* st.error, st.success and an uncaught exception, with their text
Error(text) == [kind |-> "error", text |-> text]
Success(text) == [kind |-> "success", text |-> text]
Uncaught(text) == [kind |-> "exception", text |-> text]

\* st.table, st.markdown and st.dataframe: the session records that the
\* element was shown; what it holds is what player_summary and
\* flatten_stats return
Table == [kind |-> "table"]
Markdown == [kind |-> "markdown"]
OnPage(elements) ==
    [i \in 1..Len(elements) |->
        IF elements[i].kind = "dataframe" THEN [kind |-> "dataframe"] ELSE elements[i]]

\* the documents the two collections receive
UserDocument(email_arg, player_name, lang) ==
    [email |-> email_arg, player_name |-> player_name, language |-> lang]
FeedbackDocument(email_arg, feedback, email_updates, lang) ==
    [email |-> email_arg, feedback |-> feedback, email_updates |-> email_updates,
     language |-> lang, timestamp |-> "SERVER_TIMESTAMP"]

\* What the services answer in the model.
Emails == {"", "fan@example.com"}
\* response.text of the image model
GeminiTexts == {<<" ">>, <<"A", "b", " ">>, <<"b", "b">>}
\* get_all_players: None on a fault, else the frame of the people array
SessionRosters ==
    {None, Some(<<>>), Some(RosterOf(<<Some(<<"a", "a", "b">>), Some(<<"A", "b">>)>>))}
\* get_player_details: None on a fault, else the decoded body
NullPositionRecord == [FullRecord EXCEPT !["primaryPosition"] = JNull]
SessionDetails ==
    {None,
     Some([messageNumber |-> JInt(10)]),
     Some([people |-> JList(<<>>)]),
     Some([people |-> JList(<<JObj(FullRecord)>>)]),
     Some([people |-> JList(<<JObj(NullPositionRecord)>>)])}
\* get_player_stats: None on a fault, else people[0].stats
NullTeamSplit == [SplitA EXCEPT !["team"] = JNull]
GroupOf(splits) ==
    [group |-> GroupLabels.group, type |-> GroupLabels.type, splits |-> JList(splits)]
SessionStats ==
    {None, Some(<<>>), Some(<<GroupOf(<<SplitA>>)>>), Some(<<GroupOf(<<NullTeamSplit>>)>>)}

\* the collections hold at most MaxWrites documents in the model
StoreHasRoom == Len(users) + Len(user_feedback) < MaxWrites

\* the end of a script run
EndRun(calls, shown, where) ==
    /\ trace' = calls
    /\ page' = shown
    /\ outcome' = where

\* a rerun with no button pressed: nothing is called
Rerun == EndRun(<<>>, <<>>, "idle")

InitSession ==
    /\ call = [fn |-> "none"]
    /\ done = FALSE
    /\ ret = <<>>
    /\ SessionIdle

\* the user puts an image in the file uploader; the email input appears
UploadFile ==
    /\ ~uploaded_file
    /\ uploaded_file' = TRUE
    /\ email' = ""
    /\ Rerun
    /\ UNCHANGED <<pureVars, language, users, user_feedback>>

\* the user removes the image; the email input is gone with it
RemoveFile ==
    /\ uploaded_file
    /\ uploaded_file' = FALSE
    /\ email' = ""
    /\ Rerun
    /\ UNCHANGED <<pureVars, language, users, user_feedback>>

EnterEmail ==
    /\ uploaded_file
    /\ \E e \in Emails : e # email /\ email' = e
    /\ Rerun
    /\ UNCHANGED <<pureVars, uploaded_file, language, users, user_feedback>>

SelectLanguage ==
    /\ \E l \in SupportedLanguages : l # language /\ language' = l
    /\ Rerun
    /\ UNCHANGED <<pureVars, uploaded_file, email, users, user_feedback>>

\* the stats fetch tried a second time when it fails
AfterStatsRetried(calls, shown, player_stats, full_name) ==
    LET flat == flatten_stats(player_stats, full_name, language)
    IN  IF IsNone(player_stats)
        THEN EndRun(calls \o <<"get_player_stats", "get_player_stats">>,
                    Append(shown, Error("Error fetching stats")),
                    "StatsUnavailable")
        ELSE IF flat.raised
        THEN EndRun(Append(calls, "get_player_stats"),
                    (shown \o OnPage(flat.shown))
                        \o <<Error("Error during analysis: 'NoneType' object has no attribute 'get'")>>,
                    "AnalysisError")
        ELSE EndRun(Append(calls, "get_player_stats"), shown \o OnPage(flat.shown), "Rendered")

\* The steps of the Analyze action after the player is resolved: the
\* details fetch, the formatter, the stats fetch and the flattening.
\* calls and shown are the calls made and the elements shown so far.
AfterStats(calls, shown, player_stats, full_name) ==
    LET calls5 == Append(calls, "get_player_stats")
        flat == flatten_stats(player_stats, full_name, language)
    IN  IF IsNone(player_stats)
        THEN EndRun(calls5, Append(shown, Error("Error fetching stats")),
                    "StatsUnavailable")
        ELSE IF flat.raised
        THEN EndRun(calls5,
                    (shown \o OnPage(flat.shown))
                        \o <<Error("Error during analysis: 'NoneType' object has no attribute 'get'")>>,
                    "AnalysisError")
        ELSE EndRun(calls5, shown \o OnPage(flat.shown), "Rendered")

AfterDetails(calls, shown, player_details) ==
    LET calls4 == Append(calls, "get_player_details")
    IN  IF IsNone(player_details)
        THEN EndRun(calls4, Append(shown, Error("Error fetching player details")),
                    "DetailsUnavailable")
        ELSE IF "people" \notin DOMAIN The(player_details)
        THEN EndRun(calls4, shown, "DetailsUnavailable")
        ELSE IF The(player_details)["people"][2] = <<>>
        THEN EndRun(calls4,
                    Append(shown, Error("Error during analysis: list index out of range")),
                    "AnalysisError")
        ELSE LET player_info == The(player_details)["people"][2][1][2]
                 formatted == player_summary(player_info, language)
             IN  IF formatted.raised
                 THEN EndRun(calls4,
                          Append(shown, Error("Error during analysis: 'NoneType' object has no attribute 'get'")),
                          "AnalysisError")
                 ELSE \E player_stats \in SessionStats :
                          AfterStats(calls4,
                                     shown \o <<Table, Markdown>>,
                                     player_stats,
                                     KA(key_attributes_of(player_info), "Full Name"))

\* save_user_data: the document is added, or the add raises and the error
\* is shown; the action goes on either way
SaveUserData(gemini_response, saved) ==
    users' = IF saved
             THEN Append(users, UserDocument(email, gemini_response, language))
             ELSE users

SavedMessage(gemini_response, saved) ==
    IF saved THEN Success("Data saved for " \o Join(gemini_response) \o ".")
    ELSE Error("Error saving user data")

\* the validation with the empty string let through
NameIsNone(gemini_response) == IsNone(gemini_response)

\* not gemini_response: None or the empty string
NoUsableName(gemini_response) == IsNone(gemini_response) \/ The(gemini_response) = <<>>

\* get_player_name_from_image: None when generate_content raises (the
\* error is shown), else response.text.strip()
GeminiResponses == {None} \cup {Some(Strip(text)) : text \in GeminiTexts}

ShownByRecognition(gemini_response) ==
    IF IsNone(gemini_response)
    THEN <<Error("Error generating Gemini response"),
           Written("Extracted Player Name: None")>>
    ELSE <<Written("Extracted Player Name: " \o Join(The(gemini_response)))>>

\* the email check left out
EmailNeverMissing(email_arg) == FALSE

\* not email: the text input is empty
NoEmail(email_arg) == email_arg = ""

\* The Analyze button, which exists only while an image is uploaded.
Analyze ==
    /\ uploaded_file
    /\ StoreHasRoom
    /\ UNCHANGED <<pureVars, uploaded_file, email, language, user_feedback>>
    /\ IF NoEmail(email)
       THEN /\ EndRun(<<>>,
                      <<Error("Please enter your email before analyzing the image.")>>,
                      "MissingInput")
            /\ UNCHANGED users
       ELSE \E gemini_response \in GeminiResponses :
              LET calls1 == <<"get_player_name_from_image">>
                  shown1 == ShownByRecognition(gemini_response)
              IN  IF NoUsableName(gemini_response)
                  THEN /\ EndRun(calls1,
                                 Append(shown1,
                                        Error("Could not extract player name from the image.")),
                                 "RecognitionFailure")
                       /\ UNCHANGED users
                  ELSE \E saved \in BOOLEAN, players_df \in SessionRosters :
                         LET player_name == The(gemini_response)
                             calls3 == calls1 \o <<"save_user_data", "get_all_players">>
                             shown2 == Append(shown1, SavedMessage(player_name, saved))
                             shown3 == IF IsNone(players_df)
                                       THEN Append(shown2, Error("Error processing endpoint"))
                                       ELSE shown2
                             found == search_player_by_name(players_df, player_name)
                         IN  /\ SaveUserData(player_name, saved)
                             /\ IF RosterUnavailable(players_df)
                                THEN EndRun(calls3,
                                            Append(shown3,
                                                   Error("Could not fetch players for the 2024 season.")),
                                            "RosterUnavailable")
                                ELSE IF ~IsNone(found.error_message)
                                THEN EndRun(calls3,
                                            Append(shown3,
                                                   Error(Join(The(found.error_message)))),
                                            "PlayerNotFound")
                                ELSE \E player_details \in SessionDetails :
                                         AfterDetails(calls3, shown3, player_details)

\* The Submit Feedback button.  The script reads the variable email, which
\* is assigned only inside "if uploaded_file:".
SubmitFeedback ==
    /\ StoreHasRoom
    /\ UNCHANGED <<pureVars, uploaded_file, email, language, users>>
    /\ IF ~uploaded_file
       THEN /\ EndRun(<<>>, <<Uncaught("NameError: name 'email' is not defined")>>,
                      "NameError")
            /\ UNCHANGED user_feedback
       ELSE IF email = ""
       THEN /\ EndRun(<<>>,
                      <<Error("Please enter your email earlier to save your feedback.")>>,
                      "FeedbackMissingInput")
            /\ UNCHANGED user_feedback
       ELSE \E feedback \in {"Yes", "No"}, email_updates \in {"Yes", "No"}, saved \in BOOLEAN :
              IF saved
              THEN /\ user_feedback' =
                          Append(user_feedback,
                                 FeedbackDocument(email, feedback, email_updates, language))
                   /\ EndRun(<<"save_feedback_to_database">>,
                             <<Success("Thank you for your feedback! It has been saved.")>>,
                             "FeedbackSaved")
              ELSE /\ UNCHANGED user_feedback
                   /\ EndRun(<<"save_feedback_to_database">>, <<>>, "FeedbackError")

Next ==
    \/ UploadFile
    \/ RemoveFile
    \/ EnterEmail
    \/ SelectLanguage
    \/ Analyze
    \/ SubmitFeedback

Spec == InitSession /\ [][Next]_vars


\* ------------------------------------------------------------------------
\* Claims about the session

\* where an Analyze action can end in a fault
AnalyzeFaults ==
    {"MissingInput", "RecognitionFailure", "RosterUnavailable", "PlayerNotFound",
     "DetailsUnavailable", "StatsUnavailable", "AnalysisError"}

\* the calls of an Analyze action in which every step succeeded
AllCalls ==
    <<"get_player_name_from_image", "get_all_players", "get_player_details",
      "get_player_stats", "save_user_data">>

Called(calls, name) == \E i \in 1..Len(calls) : calls[i] = name

\* C1 as stated: a step that adds an identification event is an Analyze
\* action in which recognition, roster fetch, player resolution, detail
\* fetch and stats fetch all succeeded before the write; an Analyze action
\* that ends in a fault leaves the collection as it was.
C1_WriteAfterAllSteps ==
    [][/\ users' # users => (outcome' = "Rendered" /\ trace' = AllCalls)
       /\ outcome' \in AnalyzeFaults => users' = users]_vars

\* C1 (amended): the identification event is written once the email is
\* non-empty and recognition gave a non-empty name, before the roster is
\* fetched: a step that adds an event adds exactly one, holding the session's
\* non-empty email, the extracted non-empty name and the language, and its
\* calls begin recognition, write, roster fetch; an Analyze action that ends
\* in MissingInput or RecognitionFailure makes no write and leaves the
\* collection as it was.
C1_WriteAfterRecognition ==
    [][/\ users' # users =>
            /\ Len(users') = Len(users) + 1
            /\ SubSeq(users', 1, Len(users)) = users
            /\ users'[Len(users')].email = email
            /\ email # ""
            /\ Some(users'[Len(users')].player_name) \in GeminiResponses
            /\ users'[Len(users')].player_name # <<>>
            /\ users'[Len(users')].language = language
            /\ Len(trace') >= 3
            /\ SubSeq(trace', 1, 3) =
                   <<"get_player_name_from_image", "save_user_data", "get_all_players">>
       /\ outcome' \in {"MissingInput", "RecognitionFailure"} =>
            /\ users' = users
            /\ ~Called(trace', "save_user_data")]_vars

\* an Analyze action wrote its event and then ended in a fault
C1_Witness ==
    /\ outcome = "PlayerNotFound"
    /\ trace = <<"get_player_name_from_image", "save_user_data", "get_all_players">>
    /\ users = <<UserDocument("fan@example.com", <<"b", "b">>, "English")>>

\* the script runs in which Submit Feedback was pressed
SubmitOutcomes == {"NameError", "FeedbackMissingInput", "FeedbackSaved", "FeedbackError"}

\* C9: in every session state, with or without an image uploaded, Submit
\* Feedback with an empty or never-entered email shows the MissingInput
\* message and attempts no write to the feedback collection.
C9_EmptyEmailRejected ==
    (outcome \in SubmitOutcomes /\ (~uploaded_file \/ email = "")) =>
        /\ page = <<Error("Please enter your email earlier to save your feedback.")>>
        /\ ~Called(trace, "save_feedback_to_database")


\* the four external fetches of an Analyze action, in pipeline order
Pipeline ==
    <<"get_player_name_from_image", "get_all_players", "get_player_details",
      "get_player_stats">>

\* the calls of the last script run to the four services (the writes to the
\* store left out)
ExternalCalls == Without(trace, "save_user_data")

IsPrefix(s, t) == Len(s) <= Len(t) /\ SubSeq(t, 1, Len(s)) = s

Shows(element) == \E i \in 1..Len(page) : page[i] = element

\* the outcomes in which a step before the call of Pipeline[i] failed
FailedBefore(i) ==
    CASE i = 1 -> {"MissingInput"}
      [] i = 2 -> {"MissingInput", "RecognitionFailure"}
      [] i = 3 -> {"MissingInput", "RecognitionFailure", "RosterUnavailable",
                   "PlayerNotFound"}
      [] i = 4 -> {"MissingInput", "RecognitionFailure", "RosterUnavailable",
                   "PlayerNotFound", "DetailsUnavailable"}

\* the error a failed call of Pipeline[i] shows
CallError(i) ==
    CASE i = 1 -> Error("Error generating Gemini response")
      [] i = 2 -> Error("Error processing endpoint")
      [] i = 3 -> Error("Error fetching player details")
      [] i = 4 -> Error("Error fetching stats")

\* C13: the calls an Analyze action makes to the four services are a prefix
\* of recognition, roster fetch, detail fetch, stats fetch (in that order,
\* each at most once), and a call is made only when no earlier call has
\* failed and no earlier step (email check, name validation, roster check,
\* player resolution, details check) has ended the action.
C13_PipelineOrder ==
    (outcome \in AnalyzeFaults \cup {"Rendered"}) =>
        /\ IsPrefix(ExternalCalls, Pipeline)
        /\ \A i \in 1..Len(ExternalCalls) :
              /\ outcome \notin FailedBefore(i)
              /\ \A j \in 1..(i - 1) : ~Shows(CallError(j))
        /\ Len(ExternalCalls) >= 2 =>
              /\ page[1].kind = "write"
              /\ page[1] # Written("Extracted Player Name: ")

\* an Analyze action has made all four calls, the last of which failed
C13_Witness ==
    /\ outcome = "StatsUnavailable"
    /\ ExternalCalls = Pipeline
    /\ Shows(CallError(4))


\* the outcomes of an Analyze action
AnalyzeOutcomes == AnalyzeFaults \cup {"Rendered"}

\* C14: every identification event in the store has a non-empty email and a
\* non-empty player name; an Analyze action with an empty email calls
\* nothing and writes nothing; an Analyze action whose recognition fails or
\* returns the empty name calls recognition only (no write, no roster
\* request) and leaves the store as it was.
C14_StoredEventsComplete ==
    [][/\ \A i \in 1..Len(users') :
             users'[i].email # "" /\ users'[i].player_name # <<>>
       /\ (outcome' \in AnalyzeOutcomes /\ email = "") =>
             /\ trace' = <<>>
             /\ users' = users
       /\ (/\ outcome' \in AnalyzeOutcomes
           /\ \E i \in 1..Len(page') :
                 page'[i] \in {Error("Error generating Gemini response"),
                               Written("Extracted Player Name: ")}) =>
             /\ trace' = <<"get_player_name_from_image">>
             /\ users' = users]_vars

\* with an event in the store, an Analyze action got a blank answer from
\* recognition and stopped there
C14_Witness ==
    /\ Len(users) = 1
    /\ outcome = "RecognitionFailure"
    /\ page[1] = Written("Extracted Player Name: ")
    /\ trace = <<"get_player_name_from_image">>

====
